---- MODULE Spec2Model ----
(***************************************************************************)
(* Model of the ticket dashboard of src/main.py: the Ticket Normalizer     *)
(* (load_data), the sidebar filter of main, the metric cards               *)
(* (create_metrics), the charts with their catching boundaries and the     *)
(* Backlog Accumulator (create_charts), and the download button.           *)
(*                                                                         *)
(* Conventions.                                                            *)
(*  - A table (DataFrame) is a sequence of rows; a row is a record whose   *)
(*    fields are the columns.  Column names are the source's, in ASCII:    *)
(*      Atendimento   "Atendimento"                    (ticket id)         *)
(*      DataAbertura  "Data da abertura"                                   *)
(*      DataTermino   "Data de término do atendimento"                     *)
(*      Situacao      "Situação"                                           *)
(*      Etapa         "Etapa"                                              *)
(*      Categoria2    "Categoria 2"                                        *)
(*      Categoria1    "Categoria 1"                                        *)
(*      Atraso        "Atraso no serviço"              (SLA flag)          *)
(*      Prioridade, Equipe, Responsavel  (only their presence is modelled) *)
(*      Tempo         "Tempo de Atendimento (dias)"                        *)
(*      Mes, DiaDaSemana, Hora                                             *)
(*  - String literals are the source's with the accents dropped.           *)
(*  - A timestamp is a number of hours since 1970-01-01 00:00 (pandas      *)
(*    keeps nanoseconds since the same epoch); NaT is a sentinel, as in    *)
(*    pandas.  A nullable number is <<>> (NaN) or <<n>>.                    *)
(*  - A text such as a period label '2024-01' is a sequence of characters. *)
(*  - A fraction (a float that is a quotient of counts) is <<num, den>>.   *)
(*  - The columns of a table are a set of names, kept beside its rows: a   *)
(*    row carries a field for every column, and the field of an absent     *)
(*    column is never read, since reading it raises KeyError.              *)
(***************************************************************************)
EXTENDS Integers, Sequences, FiniteSets, TLC

VARIABLES
    pc,            \* position of the run of main()
    file,          \* the uploaded file: [readable, columns, rows]
    df,            \* the table returned by load_data
    msgs,          \* messages shown so far (st.info / st.warning / st.error)
    df_filtered,   \* df[mask] of main
    backlog,       \* result of the backlog block: [raised, rows]
    metrics,       \* the values of the metric cards of create_metrics
    report,        \* the elements rendered so far, in order
    exc,           \* the exception that ended the run, if any: [type, where]
    download,      \* the download button of main: [offered, columns, data]
    cache,         \* the entries of st.cache_data around load_data, by file
    now            \* the clock the cache reads, in seconds

vars == <<pc, file, df, msgs, df_filtered, backlog, metrics, report, exc, download, cache,
          now>>

---------------------------------------------------------------------------
(* Values *)

NaN == "NaN"          \* a null cell of a text column
NaT == -1             \* a null timestamp

HoursPerDay == 24

\* all sequences over S of length 0..n
SeqsUpTo(S, n) ==
    UNION {[1..k -> S] : k \in 0..n}

---------------------------------------------------------------------------
(* Calendar of the timestamps (proleptic Gregorian, as pandas) *)

\* days since 1970-01-01 of the civil date y-m-d
days_from_civil(y, m, d) ==
    LET yy  == IF m <= 2 THEN y - 1 ELSE y
        era == yy \div 400
        yoe == yy - era * 400
        mp  == IF m > 2 THEN m - 3 ELSE m + 9
        doy == (153 * mp + 2) \div 5 + d - 1
        doe == yoe * 365 + yoe \div 4 - yoe \div 100 + doy
    IN  era * 146097 + doe - 719468

\* <<year, month, day>> of a number of days since 1970-01-01
civil_from_days(z0) ==
    LET z   == z0 + 719468
        era == z \div 146097
        doe == z - era * 146097
        yoe == (doe - doe \div 1460 + doe \div 36524 - doe \div 146096) \div 365
        doy == doe - (365 * yoe + yoe \div 4 - yoe \div 100)
        mp  == (5 * doy + 2) \div 153
        d   == doy - (153 * mp + 2) \div 5 + 1
        m   == IF mp < 10 THEN mp + 3 ELSE mp - 9
        y   == yoe + era * 400 + (IF m <= 2 THEN 1 ELSE 0)
    IN  <<y, m, d>>

Timestamp(y, m, d, h) == days_from_civil(y, m, d) * HoursPerDay + h

\* Timestamp.date(): the day number;  .dt.hour: the hour of the day
date_of(ts) == ts \div HoursPerDay
hour_of(ts) == ts % HoursPerDay

DigitChar == <<"0", "1", "2", "3", "4", "5", "6", "7", "8", "9">>

digit(n) == DigitChar[n + 1]

\* str of a Period[M]: 'YYYY-MM', and 'NaT' for a null timestamp
period_M_str(ts) ==
    IF ts = NaT THEN <<"N", "a", "T">>
    ELSE LET c == civil_from_days(date_of(ts))
             y == c[1]
             m == c[2]
         IN  << digit((y \div 1000) % 10), digit((y \div 100) % 10),
                digit((y \div 10) % 10),   digit(y % 10),
                "-",
                digit(m \div 10),          digit(m % 10) >>

dias_semana_portugues ==
    <<"Segunda-feira", "Terca-feira", "Quarta-feira", "Quinta-feira",
      "Sexta-feira", "Sabado", "Domingo">>

\* .dt.day_name().map(ingles -> portugues); 1970-01-01 was a Thursday
dia_da_semana(ts) ==
    IF ts = NaT THEN NaN ELSE dias_semana_portugues[((date_of(ts) + 3) % 7) + 1]

---------------------------------------------------------------------------
(* load_data: date parsing *)

\* pd.to_datetime(cell, errors='coerce'): a datetime cell keeps its value,
\* an empty cell or a text that is no date becomes NaT
\* a slip: a text that is no date is read as the epoch instead of NaT
to_datetime_text_as_epoch(cell) ==
    IF cell.kind = "datetime" THEN cell.v ELSE IF cell.kind = "text" THEN 0 ELSE NaT

to_datetime_coerce(cell) ==
    IF cell.kind = "datetime" THEN cell.v ELSE NaT

\* a slip: the rows whose opening date cannot be parsed are dropped
parse_dates_dropna(rows) ==
    LET parsed == [i \in DOMAIN rows |->
                      [rows[i] EXCEPT !.DataAbertura = to_datetime_coerce(rows[i].DataAbertura),
                                      !.DataTermino  = to_datetime_coerce(rows[i].DataTermino)]]
        keep   == {i \in DOMAIN parsed : parsed[i].DataAbertura # NaT}
    IN  [k \in 1..Cardinality(keep) |->
            parsed[CHOOSE i \in keep : Cardinality({j \in keep : j <= i}) = k]]

parse_dates(rows) ==
    [i \in DOMAIN rows |->
        [rows[i] EXCEPT !.DataAbertura = to_datetime_coerce(rows[i].DataAbertura),
                        !.DataTermino  = to_datetime_coerce(rows[i].DataTermino)]]

---------------------------------------------------------------------------
(* load_data: the masks and the six .loc rewrites *)

mask_cancelado(t)       == [i \in DOMAIN t |-> t[i].Situacao = "Cancelado"]
mask_atendimento(t)     == [i \in DOMAIN t |->
                               t[i].Situacao \in {"Em Atendimento", "Aguardando Atendimento"}]
mask_etapa_reprovado(t) == [i \in DOMAIN t |->
                               t[i].Etapa \in {"Reprovado", "Atendimento Reprovado"}]
mask_encerrado(t)       == [i \in DOMAIN t |->
                               t[i].Situacao = "Aguardando confirmacao de encerramento"]
mask_suspenso(t)        == [i \in DOMAIN t |-> t[i].Situacao = "Suspenso"]
mask_incidentes(t)      == [i \in DOMAIN t |-> t[i].Categoria2 = "SAP"]

\* the masks as computed once, before any rewrite
masks(t) ==
    [cancelado       |-> mask_cancelado(t),
     atendimento     |-> mask_atendimento(t),
     etapa_reprovado |-> mask_etapa_reprovado(t),
     encerrado       |-> mask_encerrado(t),
     suspenso        |-> mask_suspenso(t),
     incidentes      |-> mask_incidentes(t)]

mask_and(a, b) == [i \in DOMAIN a |-> a[i] /\ b[i]]
mask_not(a)    == [i \in DOMAIN a |-> ~a[i]]

\* df.loc[mask, cols] = value
loc_set(t, mask, cols, value) ==
    [i \in DOMAIN t |->
        IF mask[i]
        THEN [c \in DOMAIN t[i] |-> IF c \in cols THEN value ELSE t[i][c]]
        ELSE t[i]]

\* slips of the rewrite lines, used to show that the properties below depend on them
rule1_writes_etapa_only(t, m) ==
    loc_set(t, mask_and(m.cancelado, m.etapa_reprovado), {"Etapa"}, "Reprovado")
rule2_without_negation(t, m) ==
    loc_set(t, m.cancelado, {"Situacao", "Etapa"}, "Cancelado")
rule3_writes_both_columns(t, m) ==
    loc_set(t, m.encerrado, {"Situacao", "Etapa"}, "Encerrado")
rule3_writes_suspenso(t, m) ==
    loc_set(t, m.encerrado, {"Situacao"}, "Suspenso")
rule4_writes_suspenso(t, m) ==
    loc_set(t, m.atendimento, {"Situacao"}, "Suspenso")
rule5_writes_situacao(t, m) ==
    loc_set(t, m.incidentes, {"Situacao"}, "Incidente")

rule1(t, m) == loc_set(t, mask_and(m.cancelado, m.etapa_reprovado),
                       {"Situacao", "Etapa"}, "Reprovado")
rule2(t, m) == loc_set(t, mask_and(m.cancelado, mask_not(m.etapa_reprovado)),
                       {"Situacao", "Etapa"}, "Cancelado")
rule3(t, m) == loc_set(t, m.encerrado, {"Situacao"}, "Encerrado")
rule4(t, m) == loc_set(t, m.atendimento, {"Situacao"}, "Em Atendimento")
rule5(t, m) == loc_set(t, m.incidentes, {"Categoria2"}, "Incidente")
rule6(t, m) == loc_set(t, m.suspenso, {"Situacao"}, "Aguardando Aprovacao/Pausado")

\* lines 32-45: masks of the table as parsed, then the six writes in order
apply_rules(t) ==
    LET m == masks(t)
    IN  rule6(rule5(rule4(rule3(rule2(rule1(t, m), m), m), m), m), m)

---------------------------------------------------------------------------
(* load_data: derived columns *)

\* (closed - opened).dt.days: the days component of the timedelta, i.e. the
\* floor of the difference in days; NaN when either timestamp is NaT
\* a slip: the difference in days truncated toward zero instead of floored
timedelta_days_truncating(closed, opened) ==
    IF closed = NaT \/ opened = NaT THEN <<>>
    ELSE IF closed >= opened THEN <<(closed - opened) \div HoursPerDay>>
         ELSE <<0 - ((opened - closed) \div HoursPerDay)>>

timedelta_days(closed, opened) ==
    IF closed = NaT \/ opened = NaT THEN <<>>
    ELSE <<(closed - opened) \div HoursPerDay>>

dt_hour(ts) == IF ts = NaT THEN <<>> ELSE <<hour_of(ts)>>

derived_columns(t) ==
    [i \in DOMAIN t |->
        [Atendimento  |-> t[i].Atendimento,
         DataAbertura |-> t[i].DataAbertura,
         DataTermino  |-> t[i].DataTermino,
         Situacao     |-> t[i].Situacao,
         Etapa        |-> t[i].Etapa,
         Categoria2   |-> t[i].Categoria2,
         Categoria1   |-> t[i].Categoria1,
         Atraso       |-> t[i].Atraso,
         Tempo        |-> timedelta_days(t[i].DataTermino, t[i].DataAbertura),
         Mes          |-> period_M_str(t[i].DataAbertura),
         DiaDaSemana  |-> dia_da_semana(t[i].DataAbertura),
         Hora         |-> dt_hour(t[i].DataAbertura)]]

---------------------------------------------------------------------------
(* load_data *)

Message(kind, text) == [kind |-> kind, text |-> text]

WarnSituacaoIndefinida == Message("warning", "Existem registros com situacao indefinida")
ErrProcessarArquivo    == Message("error", "Erro ao processar o arquivo")
ErrCarregarDados       == Message("error", "Erro ao carregar dados. Verifique o formato do arquivo.")

\* the columns of the upload the program names
AllColumns ==
    {"Atendimento", "DataAbertura", "DataTermino", "Situacao", "Etapa", "Categoria2",
     "Categoria1", "Prioridade", "Equipe", "Responsavel", "Atraso"}

\* the columns the try block reads: the date columns of line 25 and the columns
\* of the masks of lines 32-37
LoadColumns == {"DataAbertura", "DataTermino", "Situacao", "Etapa", "Categoria2"}

\* the columns load_data adds (lines 48-58)
DerivedColumns == {"Tempo", "Mes", "DiaDaSemana", "Hora"}

\* the columns of the table load_data makes of the file f
df_columns(f) == f.columns \cup DerivedColumns

\* a slip: an absent column raises nothing
load_data_raises_unreadable_only(f) == ~f.readable

\* what the try block raises: pd.read_excel on a file it cannot read, KeyError
\* on df[col] of an absent column
load_data_raises(f) == ~f.readable \/ ~(LoadColumns \subseteq f.columns)

\* lines 21-77: whatever the try block raises is caught, reported, and an empty
\* table is returned
load_data(f) ==
    IF load_data_raises(f)
    THEN [df |-> <<>>, msgs |-> <<ErrProcessarArquivo>>]
    ELSE LET parsed == parse_dates(f.rows)
             ruled  == apply_rules(parsed)
             out    == derived_columns(ruled)
         IN  [df   |-> out,
              msgs |-> IF \E i \in DOMAIN out : out[i].Situacao = NaN
                       THEN <<WarnSituacaoIndefinida>> ELSE <<>>]

---------------------------------------------------------------------------
(* Uploaded files *)

Cell(kind, v) == [kind |-> kind, v |-> v]
EmptyCell     == Cell("empty", NaT)
TextCell      == Cell("text", NaT)          \* a text that is no date
DateCell(ts)  == Cell("datetime", ts)

RawRow(id, abertura, termino, situacao, etapa, categoria2) ==
    [Atendimento  |-> id,
     DataAbertura |-> abertura,
     DataTermino  |-> termino,
     Situacao     |-> situacao,
     Etapa        |-> etapa,
     Categoria2   |-> categoria2,
     Categoria1   |-> "INC-Sistemas Corporativos",
     Atraso       |-> "Nao"]

\* the raw vocabulary: every literal a rule compares with, one value no rule
\* names ("Outro") and the null cell
RawSituacao == {"Cancelado", "Aguardando confirmacao de encerramento", "Em Atendimento",
                "Aguardando Atendimento", "Suspenso", "Outro", NaN}
RawEtapa    == {"Reprovado", "Atendimento Reprovado", "Outro", NaN}
RawCategoria2 == {"SAP", "Outro"}

\* a table whose i-th ticket has id i
NumberRows(s) == [i \in DOMAIN s |-> [s[i] EXCEPT !.Atendimento = i]]

UnreadableFile == [readable |-> FALSE, columns |-> {}, rows |-> <<>>]
ReadableFile(rows) == [readable |-> TRUE, columns |-> AllColumns, rows |-> NumberRows(rows)]

\* a readable file that lacks the columns named
FileWithout(rows, missing) ==
    [readable |-> TRUE, columns |-> AllColumns \ missing, rows |-> NumberRows(rows)]

MaxRuleRows == 2

RuleRows ==
    {RawRow(0, DateCell(Timestamp(2024, 1, 5, 8)), EmptyCell, s, e, c) :
        s \in RawSituacao, e \in RawEtapa, c \in RawCategoria2}

RuleFiles ==
    {UnreadableFile} \cup {ReadableFile(rows) : rows \in SeqsUpTo(RuleRows, MaxRuleRows)}

\* files that vary the two date columns: days on both sides of a month end, at
\* several times of day, the empty cell and a text that is no date
MaxDateRows == 2

DateTimestamps ==
    {Timestamp(2024, 1, 31, 8), Timestamp(2024, 1, 31, 20),
     Timestamp(2024, 2, 1, 8),  Timestamp(2024, 2, 1, 20),
     Timestamp(2024, 3, 2, 0)}

DateCells == {DateCell(ts) : ts \in DateTimestamps} \cup {EmptyCell, TextCell}

DateRows == {RawRow(0, a, t, "Em Atendimento", "Outro", "Outro") : a \in DateCells, t \in DateCells}

DateFiles ==
    {UnreadableFile} \cup {ReadableFile(rows) : rows \in SeqsUpTo(DateRows, MaxDateRows)}

\* files for the whole run of main: tickets opened in three months across a
\* year end, closed in their month, closed in a later month, or never closed,
\* and a ticket with no opening date.  The last opening is at midnight: main's
\* date filter ends at 00:00 of the slider's last day.
MaxTickets == 3

BacklogOpenCells ==
    {DateCell(Timestamp(2023, 12, 31, 20)), DateCell(Timestamp(2024, 1, 31, 8)),
     DateCell(Timestamp(2024, 2, 1, 0))}
BacklogCloseCells ==
    {DateCell(Timestamp(2024, 1, 31, 20)), DateCell(Timestamp(2024, 2, 1, 20)), EmptyCell}

BacklogRows ==
    {RawRow(0, a, t, "Em Atendimento", "Outro", "Outro") :
        a \in BacklogOpenCells, t \in BacklogCloseCells}
    \cup {RawRow(0, EmptyCell, DateCell(Timestamp(2024, 1, 31, 20)),
                 "Em Atendimento", "Outro", "Outro")}

BacklogFiles ==
    {UnreadableFile} \cup {ReadableFile(rows) : rows \in SeqsUpTo(BacklogRows, MaxTickets)}

\* files that lack one column, or none; the tickets are opened at midnight of
\* one day or have no opening date, and carry the SLA flag or not
MaxColumnRows == 2

ColumnRows ==
    {[RawRow(0, a, EmptyCell, "Em Atendimento", "Outro", "Outro") EXCEPT !.Atraso = f] :
        a \in {DateCell(Timestamp(2024, 1, 5, 0)), EmptyCell}, f \in {"Nao", NaN}}

ColumnFiles ==
    {UnreadableFile} \cup
    {FileWithout(rows, missing) :
        rows \in SeqsUpTo(ColumnRows, MaxColumnRows),
        missing \in {{}} \cup {{c} : c \in AllColumns}}

\* files that vary what the metric cards read: the status, the SLA flag, and an
\* opening date that is a date or a text that is no date
MaxMetricRows == 3

MetricRows ==
    {[RawRow(0, a, DateCell(Timestamp(2024, 1, 7, 12)), s, "Outro", "Outro")
         EXCEPT !.Atraso = f] :
        a \in {DateCell(Timestamp(2024, 1, 5, 0)), TextCell},
        s \in {"Em Atendimento", NaN},
        f \in {"Nao", "Sim", NaN}}

MetricFiles ==
    {UnreadableFile} \cup {ReadableFile(rows) : rows \in SeqsUpTo(MetricRows, MaxMetricRows)}

---------------------------------------------------------------------------
(* Texts: order, split, lstrip *)

\* code points of the characters a period label can hold
char_code(c) ==
    CASE c = "-" -> 45
      [] c = "0" -> 48 [] c = "1" -> 49 [] c = "2" -> 50 [] c = "3" -> 51
      [] c = "4" -> 52 [] c = "5" -> 53 [] c = "6" -> 54 [] c = "7" -> 55
      [] c = "8" -> 56 [] c = "9" -> 57
      [] c = "N" -> 78 [] c = "T" -> 84 [] c = "a" -> 97

\* a < b for texts, as Python compares str: at the first position where they
\* differ a has the smaller character, or a ends there
str_less(a, b) ==
    \E k \in DOMAIN b :
        /\ \A j \in 1..(k - 1) : j \in DOMAIN a /\ a[j] = b[j]
        /\ k \in DOMAIN a => char_code(a[k]) < char_code(b[k])

\* the texts of S in ascending order
sorted_strs(S) ==
    [k \in 1..Cardinality(S) |->
        CHOOSE x \in S : Cardinality({y \in S : str_less(y, x)}) = k - 1]

\* str.split(sep): the pieces between the occurrences of sep
str_split(text, sep) ==
    LET at == {i \in DOMAIN text : text[i] = sep}
        cut(n) == IF n = 0 THEN 0
                  ELSE IF n = Cardinality(at) + 1 THEN Len(text) + 1
                  ELSE CHOOSE i \in at : Cardinality({j \in at : j <= i}) = n
    IN  [n \in 1..(Cardinality(at) + 1) |-> SubSeq(text, cut(n - 1) + 1, cut(n) - 1)]

\* str.lstrip(ch)
str_lstrip(text, ch) ==
    LET lead == {n \in 0..Len(text) : \A j \in 1..n : text[j] = ch}
        k    == CHOOSE n \in lead : \A o \in lead : o <= n
    IN  SubSeq(text, k + 1, Len(text))

---------------------------------------------------------------------------
(* create_charts, tabs[6]: the backlog ledger *)

\* a slip: groupby(sort=False), the keys in order of first appearance
groupby_size_unsorted(t, col) ==
    LET first == {i \in DOMAIN t : \A j \in 1..(i - 1) : t[j][col] # t[i][col]}
        nth(k) == CHOOSE i \in first : Cardinality({j \in first : j <= i}) = k
    IN  [k \in 1..Cardinality(first) |->
            [key |-> t[nth(k)][col],
             n   |-> Cardinality({i \in DOMAIN t : t[i][col] = t[nth(k)][col]})]]

\* df.groupby(col).size(): the keys present, ascending, each with its row count
groupby_size(t, col) ==
    LET keys == sorted_strs({t[i][col] : i \in DOMAIN t})
    IN  [k \in DOMAIN keys |->
            [key |-> keys[k], n |-> Cardinality({i \in DOMAIN t : t[i][col] = keys[k]})]]

\* t[mask]: the rows that pass, in their order
select_rows(t, mask) ==
    LET idx == {i \in DOMAIN t : mask[i]}
    IN  [k \in 1..Cardinality(idx) |->
            t[CHOOSE i \in idx : Cardinality({j \in idx : j <= i}) = k]]

\* the column a left merge on the key brings in, NaN where the key is absent,
\* then fillna(0)
merged_count(grouped, key) ==
    LET hit == {k \in DOMAIN grouped : grouped[k].key = key}
        cell == IF hit = {} THEN <<>> ELSE <<grouped[CHOOSE k \in hit : TRUE].n>>
    IN  IF cell = <<>> THEN 0 ELSE cell[1]

meses_pt(mes) ==
    CASE mes = <<"1">> -> "Janeiro"       [] mes = <<"2">> -> "Fevereiro"
      [] mes = <<"3">> -> "Marco"         [] mes = <<"4">> -> "Abril"
      [] mes = <<"5">> -> "Maio"          [] mes = <<"6">> -> "Junho"
      [] mes = <<"7">> -> "Julho"         [] mes = <<"8">> -> "Agosto"
      [] mes = <<"9">> -> "Setembro"      [] mes = <<"1", "0">> -> "Outubro"
      [] mes = <<"1", "1">> -> "Novembro" [] mes = <<"1", "2">> -> "Dezembro"
      [] OTHER -> "Mes Desconhecido"

\* ano, mes = periodo.split('-') raises unless the split yields two parts
converter_raises(periodo) == Len(str_split(periodo, "-")) # 2

\* 'YYYY-MM' -> 'Mes-YYYY': the month name, a dash, the characters of the year
converter_mes_ano(periodo) ==
    LET parts == str_split(periodo, "-")
        ano   == parts[1]
        mes   == str_lstrip(parts[2], "0")
    IN  <<meses_pt(mes), "-">> \o ano

\* lines 977-981: cumsum of (opened - closed in the month), then the row's own
\* open tickets added
cumsum(s) ==
    LET acc[k \in 0..Len(s)] == IF k = 0 THEN 0 ELSE acc[k - 1] + s[k]
    IN  [k \in DOMAIN s |-> acc[k]]

\* a slip: the open tickets added before the running sum, so that they accumulate
backlog_acumulado_reaccumulated(rows) ==
    cumsum([k \in DOMAIN rows |-> rows[k].Abertos - rows[k].Fechados + rows[k].EmAberto])

backlog_acumulado(rows) ==
    LET running == cumsum([k \in DOMAIN rows |-> rows[k].Abertos - rows[k].Fechados])
    IN  [k \in DOMAIN rows |-> running[k] + rows[k].EmAberto]

\* a slip: only tickets closed in another month count as transferred
is_transferido_closed_only(r) == r.DataTermino # NaT /\ r.MesAbertura # r.MesFechamento

\* a slip: every ticket not closed in its opening month counts as open
is_em_aberto_not_closed_in_month(r) == r.MesAbertura # r.MesFechamento

is_fechado_mesmo_mes(r) == r.MesAbertura = r.MesFechamento
is_transferido(r)       == r.MesAbertura # r.MesFechamento
is_em_aberto(r)         == r.DataTermino = NaT

\* lines 921-923: the two month columns of df_backlog
month_columns(t) ==
    [i \in DOMAIN t |->
        [DataTermino   |-> t[i].DataTermino,
         MesAbertura   |-> period_M_str(t[i].DataAbertura),
         MesFechamento |-> period_M_str(t[i].DataTermino)]]

\* a slip: an outer merge with the closing months, so that a month in which
\* tickets were only closed gets a row
merged_counts_with_closing_months(df_backlog) ==
    LET keys == sorted_strs({df_backlog[i].MesAbertura : i \in DOMAIN df_backlog} \cup
                            {df_backlog[i].MesFechamento :
                                i \in {j \in DOMAIN df_backlog : df_backlog[j].DataTermino # NaT}})
        count(key, is_kept(_)) ==
            Cardinality({i \in DOMAIN df_backlog :
                df_backlog[i].MesAbertura = key /\ is_kept(df_backlog[i])})
        is_any(r) == TRUE
    IN  [k \in DOMAIN keys |->
            [MesAbertura  |-> keys[k],
             Abertos      |-> count(keys[k], is_any),
             Fechados     |-> count(keys[k], is_fechado_mesmo_mes),
             Transferidos |-> count(keys[k], is_transferido),
             EmAberto     |-> count(keys[k], is_em_aberto)]]

\* lines 925-944: the four groupby counts, left-merged on the opening month
merged_counts(df_backlog) ==
    LET rows_where(is_kept(_)) ==
            select_rows(df_backlog, [i \in DOMAIN df_backlog |-> is_kept(df_backlog[i])])
        abertos_por_mes          == groupby_size(df_backlog, "MesAbertura")
        fechados_mesmo_mes       == groupby_size(rows_where(is_fechado_mesmo_mes), "MesAbertura")
        transferidos_proximo_mes == groupby_size(rows_where(is_transferido), "MesAbertura")
        em_aberto_por_mes        == groupby_size(rows_where(is_em_aberto), "MesAbertura")
    IN  [k \in DOMAIN abertos_por_mes |->
            [MesAbertura  |-> abertos_por_mes[k].key,
             Abertos      |-> abertos_por_mes[k].n,
             Fechados     |-> merged_count(fechados_mesmo_mes, abertos_por_mes[k].key),
             Transferidos |-> merged_count(transferidos_proximo_mes, abertos_por_mes[k].key),
             EmAberto     |-> merged_count(em_aberto_por_mes, abertos_por_mes[k].key)]]

\* lines 973-981: the labels rewritten, then the cumulative column
relabel_and_accumulate(merged) ==
    IF \E k \in DOMAIN merged : converter_raises(merged[k].MesAbertura)
    THEN [raised |-> TRUE, rows |-> <<>>]
    ELSE LET acumulado == backlog_acumulado(merged)
         IN  [raised |-> FALSE,
              rows   |-> [k \in DOMAIN merged |->
                            [MesAbertura      |-> converter_mes_ano(merged[k].MesAbertura),
                             Abertos          |-> merged[k].Abertos,
                             Fechados         |-> merged[k].Fechados,
                             Transferidos     |-> merged[k].Transferidos,
                             EmAberto         |-> merged[k].EmAberto,
                             BacklogAcumulado |-> acumulado[k]]]]

\* lines 921-981; each stage is computed once and handed to the next
backlog_ledger(t) ==
    CHOOSE ledger \in
        {relabel_and_accumulate(merged) :
            merged \in {merged_counts(df_backlog) :
                df_backlog \in {month_columns(t)}}} : TRUE

---------------------------------------------------------------------------
(* main *)

NoBacklog == [raised |-> FALSE, rows |-> <<>>]
NoMetrics == [shown |-> FALSE]

Exception(type, where) == [type |-> type, where |-> where]
NoException == Exception("", "")

NoDownload == [offered |-> FALSE]

\* line 18: @st.cache_data(ttl=3600), in seconds
ttl == 3600

\* the cache of a new session
EmptyCache == [f \in {} |-> {}]

\* a cache entry: what load_data returned (the table and the messages shown
\* while it ran, which a hit replays) and the time the entry was written
CacheEntry(result, at) == [result |-> result, at |-> at]

\* a cache whose entries never expire
cache_outcomes_never_expiring(c, f, t) ==
    IF f \notin DOMAIN c THEN {"miss"} ELSE {"hit"}

\* lines 18-19: how the decorator answers the call load_data(f) at time t.  The
\* key is the argument, an uploaded file hashed by its identity; an entry
\* answers the call while it is younger than ttl and is recomputed once it is
\* older.  At the age of exactly ttl either may happen.
cache_outcomes(c, f, t) ==
    IF f \notin DOMAIN c THEN {"miss"}
    ELSE IF t - c[f].at < ttl THEN {"hit"}
    ELSE IF t - c[f].at > ttl THEN {"miss"}
    ELSE {"hit", "miss"}

\* the cache with the entry of f written
cache_put(c, f, entry) ==
    [g \in DOMAIN c \cup {f} |-> IF g = f THEN entry ELSE c[g]]

\* lines 1061-1065: df = load_data(uploaded_file), answered from the cache or
\* parsed and stored; an empty df stops the run
Load ==
    /\ pc = "uploaded"
    /\ \E outcome \in cache_outcomes(cache, file, now) :
       \E entry \in {IF outcome = "hit" THEN cache[file]
                     ELSE CacheEntry(load_data(file), now)} :
          /\ cache' = cache_put(cache, file, entry)
          /\ df' = entry.result.df
          /\ IF entry.result.df = <<>>
             THEN /\ msgs' = msgs \o entry.result.msgs \o <<ErrCarregarDados>>
                  /\ pc' = "halted"
             ELSE /\ msgs' = msgs \o entry.result.msgs
                  /\ pc' = "loaded"
    /\ UNCHANGED <<file, now, df_filtered, backlog, metrics, report, exc, download>>

WarnNenhumDado == Message("warning", "Nenhum dado encontrado com os filtros selecionados.")

\* the days on which some ticket of t was opened
opened_dates(t) == {date_of(t[i].DataAbertura) : i \in {j \in DOMAIN t : t[j].DataAbertura # NaT}}

set_min(S) == CHOOSE x \in S : \A y \in S : x <= y
set_max(S) == CHOOSE x \in S : \A y \in S : x >= y

\* the positions of the date slider that tell the rows apart: the slider runs
\* over every day from the first to the last opening date; a day on which no
\* ticket was opened selects what the day after the previous opening day selects
slider_days(t) ==
    {d \in set_min(opened_dates(t))..set_max(opened_dates(t)) :
        d \in opened_dates(t) \/ (d - 1) \in opened_dates(t)}

\* Series.between(left, right) with left and right at midnight; NaT is in no range
\* a range test that a null timestamp passes
between_nat_passes(ts, lo, hi) ==
    ts = NaT \/ (lo * HoursPerDay <= ts /\ ts <= hi * HoursPerDay)

between(ts, lo, hi) ==
    ts # NaT /\ lo * HoursPerDay <= ts /\ ts <= hi * HoursPerDay

column_unique(t, col) == {t[i][col] : i \in DOMAIN t}

\* the columns sidebar_filters reads (lines 88-145)
SidebarColumns ==
    {"DataAbertura", "Situacao", "Categoria2", "Categoria1", "Prioridade", "Equipe",
     "Responsavel"}

\* whether sidebar_filters raises: with no opening date at all the slider has no
\* bounds; df[col] of an absent column raises KeyError
sidebar_filters_raises(t, columns) ==
    opened_dates(t) = {} \/ ~(SidebarColumns \subseteq columns)

\* nothing in main catches what sidebar_filters raises
SidebarRaise ==
    /\ pc' = "raised"
    /\ exc' = Exception(IF opened_dates(df) = {} THEN "ValueError" ELSE "KeyError",
                        "sidebar_filters")
    /\ UNCHANGED <<df_filtered, msgs>>

\* lines 1070-1084: the mask of the selections and the empty check.  The
\* multiselects of the columns whose values the model carries are Situacao,
\* Categoria2 and Categoria1.
FilterWith(lo, hi, situacoes, categorias, tipos) ==
    LET mask == [i \in DOMAIN df |->
                    /\ between(df[i].DataAbertura, lo, hi)
                    /\ df[i].Situacao \in situacoes
                    /\ df[i].Categoria2 \in categorias
                    /\ df[i].Categoria1 \in tipos]
        kept == select_rows(df, mask)
    IN  /\ df_filtered' = kept
        /\ IF kept = <<>>
           THEN /\ msgs' = Append(msgs, WarnNenhumDado)
                /\ pc' = "halted"
           ELSE /\ msgs' = msgs
                /\ pc' = "filtered"
        /\ exc' = exc

\* lines 1067-1084: the sidebar widgets with any selection the user can make
Filter ==
    /\ pc = "loaded"
    /\ IF sidebar_filters_raises(df, df_columns(file))
       THEN SidebarRaise
       ELSE \E lo \in slider_days(df), hi \in slider_days(df),
               situacoes \in SUBSET column_unique(df, "Situacao"),
               categorias \in SUBSET column_unique(df, "Categoria2"),
               tipos \in SUBSET column_unique(df, "Categoria1") :
               /\ lo <= hi
               /\ FilterWith(lo, hi, situacoes, categorias, tipos)
    /\ UNCHANGED <<file, df, backlog, metrics, report, download, cache, now>>

\* lines 92-98, 107-145: the sidebar widgets as they are first shown, the slider
\* at value=(min_date, max_date) and every multiselect at default=options
FilterDefaults ==
    /\ pc = "loaded"
    /\ IF sidebar_filters_raises(df, df_columns(file))
       THEN SidebarRaise
       ELSE FilterWith(set_min(opened_dates(df)), set_max(opened_dates(df)),
                       column_unique(df, "Situacao"), column_unique(df, "Categoria2"),
                       column_unique(df, "Categoria1"))
    /\ UNCHANGED <<file, df, backlog, metrics, report, download, cache, now>>

---------------------------------------------------------------------------
(* create_metrics *)

\* Series.value_counts(normalize=True): the share of each non-null value among
\* the non-null cells; no entry, and no division, when there is none
value_counts_normalize(t, col) ==
    LET present == {i \in DOMAIN t : t[i][col] # NaN}
    IN  [v \in {t[i][col] : i \in present} |->
            <<Cardinality({i \in present : t[i][col] = v}), Cardinality(present)>>]

\* a slip: the share among all rows, the null cells included
sla_percent_of_all_rows(t) ==
    <<100 * Cardinality({i \in DOMAIN t : t[i].Atraso = "Nao"}), Len(t)>>

\* line 156: value_counts(normalize=True).get('Nao', 0) * 100
sla_percent(t) ==
    LET shares == value_counts_normalize(t, "Atraso")
    IN  IF "Nao" \in DOMAIN shares
        THEN <<100 * shares["Nao"][1], shares["Nao"][2]>>
        ELSE <<0, 1>>

\* line 157: Series.mean() skips the null durations; NaN when there is none
tempo_medio(t) ==
    LET present == {i \in DOMAIN t : t[i].Tempo # <<>>}
        total[k \in 0..Len(t)] ==
            IF k = 0 THEN 0
            ELSE total[k - 1] + (IF k \in present THEN t[k].Tempo[1] ELSE 0)
    IN  IF present = {} THEN <<>> ELSE <<total[Len(t)], Cardinality(present)>>

\* lines 156-166: the values of the six cards
create_metrics(t) ==
    [shown        |-> TRUE,
     total        |-> Len(t),
     tempo_medio  |-> tempo_medio(t),
     sla_percent  |-> sla_percent(t),
     incidentes   |-> Cardinality({i \in DOMAIN t :
                         t[i].Categoria1 = "INC-Sistemas Corporativos"}),
     requisicoes  |-> Cardinality({i \in DOMAIN t :
                         t[i].Categoria1 = "REQ-Sistemas Corporativos"}),
     reprovados   |-> Cardinality({i \in DOMAIN t : t[i].Situacao = "Reprovado"})]

---------------------------------------------------------------------------
(* The elements of the report and their catching boundaries *)

\* an element: the function that renders it, the columns its `if ... in
\* df.columns` guard asks for (skipped in silence without them), the columns it
\* reads (KeyError without them), whether a try/except encloses it, and the
\* text of the st.warning / st.error of its except clause
Element(name, where, guard, needs, caught, text) ==
    [name |-> name, where |-> where, guard |-> guard, needs |-> needs,
     caught |-> caught, text |-> text]

\* lines 1087-1096, in the order of execution: create_metrics, the seven tabs of
\* create_charts, the download button of main
elements ==
    << Element("metrics", "create_metrics", {}, {"Atraso", "Tempo", "Categoria1", "Situacao"},
               FALSE, ""),
       \* tabs[0], lines 201-321: no try
       Element("top_categorias", "create_charts", {"Categoria2"}, {}, FALSE, ""),
       Element("heatmap_hora_dia", "create_charts", {"DataAbertura"}, {"Atendimento"},
               FALSE, ""),
       Element("histograma_tempo", "create_charts", {"Tempo"}, {}, FALSE, ""),
       Element("top_categorias_tempo", "create_charts", {"Categoria2", "Tempo"}, {},
               FALSE, ""),
       \* tabs[1], lines 323-431
       Element("evolucao_mensal", "create_charts", {}, {"DataAbertura", "Atraso"},
               TRUE, "Erro ao criar grafico temporal"),
       Element("evolucao_categorias", "create_charts", {}, {"Categoria1"},
               TRUE, "Erro ao criar grafico de evolucao"),
       \* tabs[2], lines 433-583
       Element("sunburst", "create_charts", {}, {"Equipe", "Responsavel", "Situacao"},
               TRUE, "Erro no grafico sunburst"),
       Element("treemap", "create_charts", {}, {"Categoria1", "Categoria2", "Etapa"},
               TRUE, "Erro no grafico treemap"),
       Element("prioridade_situacao", "create_charts", {},
               {"Prioridade", "Situacao", "Atendimento"},
               TRUE, "Erro no grafico de prioridades"),
       Element("boxplot", "create_charts", {}, {"Tempo", "Categoria1", "Prioridade"},
               TRUE, "Erro no grafico boxplot"),
       \* tabs[3], lines 585-691
       Element("prioridades", "create_charts", {}, {"Prioridade"},
               TRUE, "Erro no grafico de prioridades"),
       Element("sla_comparativo", "create_charts", {}, {"Categoria2", "Atraso"},
               TRUE, "Erro no grafico comparativo"),
       Element("scatter", "create_charts", {}, {"Tempo", "Prioridade", "Categoria1"},
               TRUE, "Erro no grafico de dispersao"),
       \* tabs[4], lines 693-785
       Element("violin", "create_charts", {}, {"Tempo"},
               TRUE, "Erro no grafico de violino"),
       Element("heatmap_dia_hora", "create_charts", {}, {"DataAbertura"},
               TRUE, "Erro no mapa de calor"),
       \* tabs[5], lines 787-915: the table shows the columns that are there
       Element("tabela", "create_charts", {}, {}, TRUE, "Erro ao processar os dados"),
       \* tabs[6], lines 917-1050: no try
       Element("backlog", "create_charts", {}, {"DataAbertura", "DataTermino"}, FALSE, ""),
       \* lines 1091-1096
       Element("download_button", "main", {}, {}, FALSE, "") >>

\* whether the element raises: it reads an absent column, or it is the backlog
\* block and the relabelling of a month raises
element_raises(e, columns, ledger_raised) ==
    \/ ~(e.needs \subseteq columns)
    \/ e.name = "backlog" /\ ledger_raised

\* the run of the elements es over a table with the columns given: an element
\* whose guard fails is skipped, a raise inside a try becomes a message, the
\* first raise outside one ends the run.  stop is the position of that element.
render(es, columns, ledger_raised) ==
    LET n          == Len(es)
        skipped(k) == ~(es[k].guard \subseteq columns)
        raises(k)  == ~skipped(k) /\ element_raises(es[k], columns, ledger_raised)
        escaping   == {k \in 1..n : raises(k) /\ ~es[k].caught}
        stop       == IF escaping = {} THEN n + 1 ELSE set_min(escaping)
        shown      == select_rows(es, [k \in 1..n |-> k < stop /\ ~skipped(k) /\ ~raises(k)])
        warned     == select_rows(es, [k \in 1..n |-> k < stop /\ raises(k)])
    IN  [report |-> [k \in DOMAIN shown |-> shown[k].name],
         msgs   |-> [k \in DOMAIN warned |->
                        Message(IF warned[k].name = "tabela" THEN "error" ELSE "warning",
                                warned[k].text)],
         stop   |-> stop,
         exc    |-> IF stop > n THEN NoException
                    ELSE Exception(IF es[stop].needs \subseteq columns
                                   THEN "ValueError" ELSE "KeyError",
                                   es[stop].where)]

\* the position of the element named so
position(es, name) == CHOOSE k \in DOMAIN es : es[k].name = name

\* line 341: df['Mes_num'] = df['Data da abertura'].dt.month, written into the
\* table create_charts was handed (the month 1..12, null for a null timestamp)
with_mes_num(t) ==
    [i \in DOMAIN t |->
        [Atendimento |-> t[i].Atendimento, DataAbertura |-> t[i].DataAbertura,
         DataTermino |-> t[i].DataTermino, Situacao |-> t[i].Situacao,
         Etapa |-> t[i].Etapa, Categoria2 |-> t[i].Categoria2,
         Categoria1 |-> t[i].Categoria1, Atraso |-> t[i].Atraso,
         Tempo |-> t[i].Tempo, Mes |-> t[i].Mes, DiaDaSemana |-> t[i].DiaDaSemana,
         Hora |-> t[i].Hora,
         Mes_num |-> IF t[i].DataAbertura = NaT THEN <<>>
                     ELSE <<civil_from_days(date_of(t[i].DataAbertura))[2]>>]]

\* a button that exports the table as it was loaded
to_csv_unfiltered(t, columns) == [offered |-> TRUE, columns |-> columns, data |-> df]

\* lines 1091-1096: data=df_filtered.to_csv(index=False), every column and
\* every row of the table as it is when the button is built
to_csv(t, columns) == [offered |-> TRUE, columns |-> columns, data |-> t]

\* lines 1086-1096: create_metrics, create_charts and the download button.
\* Nothing in main catches what they raise.
Render ==
    /\ pc = "filtered"
    /\ \E b \in {backlog_ledger(df_filtered)} :
       \E r \in {render(elements, df_columns(file), b.raised)} :
       \E charted \in {IF r.stop > position(elements, "evolucao_mensal")
                       THEN with_mes_num(df_filtered) ELSE df_filtered} :
          /\ report' = report \o r.report
          /\ msgs' = msgs \o r.msgs
          /\ exc' = r.exc
          /\ metrics' = IF r.stop > position(elements, "metrics")
                        THEN create_metrics(df_filtered) ELSE NoMetrics
          /\ backlog' = IF r.stop >= position(elements, "backlog") THEN b ELSE NoBacklog
          /\ df_filtered' = charted
          /\ download' = IF r.stop >= position(elements, "download_button")
                         THEN to_csv(charted, df_columns(file) \cup {"Mes_num"})
                         ELSE NoDownload
          /\ pc' = IF r.exc = NoException THEN "rendered" ELSE "raised"
    /\ UNCHANGED <<file, df, cache, now>>

InitWith(files) ==
    /\ file \in files
    /\ pc = "uploaded"
    /\ df = <<>>
    /\ msgs = <<>>
    /\ df_filtered = <<>>
    /\ backlog = NoBacklog
    /\ metrics = NoMetrics
    /\ report = <<>>
    /\ exc = NoException
    /\ download = NoDownload
    /\ cache = EmptyCache
    /\ now = 0

\* the Normalizer alone, over files that vary the columns the rules read
InitRules == InitWith(RuleFiles)
NextLoad  == Load
SpecRules == InitRules /\ [][NextLoad]_vars

\* the whole run of main, over files that vary opening and closing months
InitBacklog == InitWith(BacklogFiles)
NextMain    == Load \/ Filter \/ Render
SpecBacklog == InitBacklog /\ [][NextMain]_vars

\* the Normalizer alone, over files that vary the two date columns
InitDates == InitWith(DateFiles)
SpecDates == InitDates /\ [][NextLoad]_vars

\* the whole run of main, over files that lack a column
InitColumns == InitWith(ColumnFiles)
SpecColumns == InitColumns /\ [][NextMain]_vars

\* the whole run of main, over files that vary what the metric cards read
InitMetrics == InitWith(MetricFiles)
SpecMetrics == InitMetrics /\ [][NextMain]_vars

\* create_metrics and create_charts called on a table as load_data returns it,
\* whatever its opening dates: the table is not passed through the date filter
\* of main first
InitCharts ==
    /\ file \in BacklogFiles
    /\ load_data(file).df # <<>>
    /\ pc = "filtered"
    /\ df = load_data(file).df
    /\ msgs = load_data(file).msgs
    /\ df_filtered = df
    /\ backlog = NoBacklog
    /\ metrics = NoMetrics
    /\ report = <<>>
    /\ exc = NoException
    /\ download = NoDownload
    /\ cache = EmptyCache
    /\ now = 0
NextRender == Render
SpecCharts == InitCharts /\ [][NextRender]_vars

\* the whole run of main with the sidebar left as it is first shown
InitDefaults == InitWith(BacklogFiles)
NextDefaults == Load \/ FilterDefaults \/ Render
SpecDefaults == InitDefaults /\ [][NextDefaults]_vars

---------------------------------------------------------------------------
(* The session: Streamlit runs main from the top after every interaction *)

\* uploaded_file is None
NoFile == [none |-> TRUE]

InfoFacaUpload ==
    Message("info", "Por favor, faca upload de um arquivo Excel para iniciar.")

\* lines 1055-1059: the file uploader and the first gate of main
CheckUpload ==
    /\ pc = "start"
    /\ IF file = NoFile
       THEN /\ msgs' = Append(msgs, InfoFacaUpload)
            /\ pc' = "halted"
       ELSE /\ msgs' = msgs
            /\ pc' = "uploaded"
    /\ UNCHANGED <<file, df, df_filtered, backlog, metrics, report, exc, download, cache,
                   now>>

\* the run of main has ended
Ended == pc \in {"halted", "raised", "rendered"}

\* a new run of main with the file f in the uploader: every local of the last
\* run is gone, the cache and the clock are not
Rerun(f) ==
    /\ Ended
    /\ file' = f
    /\ pc' = "start"
    /\ df' = <<>>
    /\ msgs' = <<>>
    /\ df_filtered' = <<>>
    /\ backlog' = NoBacklog
    /\ metrics' = NoMetrics
    /\ report' = <<>>
    /\ exc' = NoException
    /\ download' = NoDownload
    /\ UNCHANGED <<cache, now>>

\* files of different content, one of them without the ticket column
SessionFileA ==
    ReadableFile(<<RawRow(0, DateCell(Timestamp(2024, 1, 5, 0)), EmptyCell,
                          "Em Atendimento", "Outro", "Outro"),
                   RawRow(0, DateCell(Timestamp(2024, 1, 6, 0)),
                          DateCell(Timestamp(2024, 1, 7, 12)),
                          "Cancelado", "Outro", "SAP")>>)
SessionFileB ==
    ReadableFile(<<RawRow(0, DateCell(Timestamp(2024, 2, 1, 0)), EmptyCell,
                          "Suspenso", "Outro", "Outro")>>)
SessionFileC ==
    FileWithout(<<RawRow(0, DateCell(Timestamp(2024, 3, 1, 0)), EmptyCell,
                         "Em Atendimento", "Outro", "Outro")>>, {"Atendimento"})
SessionFiles == {UnreadableFile, SessionFileA, SessionFileB, SessionFileC}

\* the user puts another file into the uploader, or takes the file out
Upload ==
    \E f \in SessionFiles \cup {NoFile} :
        /\ f # file
        /\ Rerun(f)

\* the user moves a widget of the sidebar, which exists once sidebar_filters
\* has run to its end; the selection is read by the next run
ChangeFilter ==
    /\ \/ pc = "rendered"
       \/ pc = "raised" /\ exc.where # "sidebar_filters"
       \/ pc = "halted" /\ df # <<>>
    /\ Rerun(file)

\* the clock, in steps of half the ttl; a run of main is short beside a step,
\* so the clock moves between runs
MaxTicks == 3
TickSeconds == ttl \div 2

Tick ==
    /\ Ended
    /\ now < MaxTicks * TickSeconds
    /\ now' = now + TickSeconds
    /\ UNCHANGED <<pc, file, df, msgs, df_filtered, backlog, metrics, report, exc,
                   download, cache>>

InitSession ==
    /\ file = NoFile
    /\ pc = "start"
    /\ df = <<>>
    /\ msgs = <<>>
    /\ df_filtered = <<>>
    /\ backlog = NoBacklog
    /\ metrics = NoMetrics
    /\ report = <<>>
    /\ exc = NoException
    /\ download = NoDownload
    /\ cache = EmptyCache
    /\ now = 0
NextSession ==
    CheckUpload \/ Load \/ Filter \/ Render \/ Upload \/ ChangeFilter \/ Tick
SpecSession == InitSession /\ [][NextSession]_vars

---------------------------------------------------------------------------
(* Properties of the rewrite rules (SpecRules) *)

EtapaReprovado == {"Reprovado", "Atendimento Reprovado"}
Loaded == pc = "loaded"
raw(i) == file.rows[i]

RuleFields(r) == <<r.Situacao, r.Etapa, r.Categoria2>>

\* C1: a raw "Cancelado" row leaves load_data with status = stage = "Reprovado"
\* when its raw stage is "Reprovado" or "Atendimento Reprovado", and with
\* status = stage = "Cancelado" for every other raw stage, the null stage included.
C1_CanceladoRows ==
    Loaded =>
        \A i \in DOMAIN file.rows :
            raw(i).Situacao = "Cancelado" =>
                /\ i \in DOMAIN df
                /\ IF raw(i).Etapa \in EtapaReprovado
                   THEN df[i].Situacao = "Reprovado" /\ df[i].Etapa = "Reprovado"
                   ELSE df[i].Situacao = "Cancelado" /\ df[i].Etapa = "Cancelado"

C1_Witness ==
    /\ Loaded
    /\ \E i, j \in DOMAIN file.rows :
          /\ raw(i).Situacao = "Cancelado" /\ raw(i).Etapa = "Atendimento Reprovado"
          /\ raw(j).Situacao = "Cancelado" /\ raw(j).Etapa = NaN
          /\ df[i].Etapa = "Reprovado" /\ df[j].Etapa = "Cancelado"

\* C2: rules 3-6 rewrite only their own field: the three status rewrites and the
\* category rewrite happen as listed, no row whose raw status is not "Cancelado"
\* has its stage changed, and a status or category that matches no rule is kept.
C2_OwnFieldOnly ==
    Loaded =>
        \A i \in DOMAIN file.rows :
            /\ i \in DOMAIN df
            /\ raw(i).Situacao = "Aguardando confirmacao de encerramento"
                  => df[i].Situacao = "Encerrado"
            /\ raw(i).Situacao \in {"Em Atendimento", "Aguardando Atendimento"}
                  => df[i].Situacao = "Em Atendimento"
            /\ raw(i).Situacao = "Suspenso"
                  => df[i].Situacao = "Aguardando Aprovacao/Pausado"
            /\ raw(i).Categoria2 = "SAP" => df[i].Categoria2 = "Incidente"
            /\ raw(i).Situacao # "Cancelado" => df[i].Etapa = raw(i).Etapa
            /\ raw(i).Situacao \notin {"Cancelado", "Aguardando confirmacao de encerramento",
                                      "Em Atendimento", "Aguardando Atendimento", "Suspenso"}
                  => df[i].Situacao = raw(i).Situacao
            /\ raw(i).Categoria2 # "SAP" => df[i].Categoria2 = raw(i).Categoria2

C2_Witness ==
    /\ Loaded
    /\ \E i, j \in DOMAIN file.rows :
          /\ raw(i).Situacao = "Aguardando confirmacao de encerramento"
          /\ raw(i).Etapa = "Reprovado" /\ df[i].Etapa = "Reprovado"
          /\ df[i].Situacao = "Encerrado"
          /\ raw(j).Situacao = "Outro" /\ raw(j).Categoria2 = "Outro"
          /\ RuleFields(df[j]) = RuleFields(raw(j))

\* the six rules as one simultaneous assignment, every predicate read from the
\* raw row
snapshot_row(r) ==
    LET cancelado == r.Situacao = "Cancelado"
        reprovado == r.Etapa \in EtapaReprovado
    IN  << CASE cancelado /\ reprovado  -> "Reprovado"
             [] cancelado /\ ~reprovado -> "Cancelado"
             [] r.Situacao = "Aguardando confirmacao de encerramento" -> "Encerrado"
             [] r.Situacao \in {"Em Atendimento", "Aguardando Atendimento"} -> "Em Atendimento"
             [] r.Situacao = "Suspenso" -> "Aguardando Aprovacao/Pausado"
             [] OTHER -> r.Situacao,
           CASE cancelado /\ reprovado  -> "Reprovado"
             [] cancelado /\ ~reprovado -> "Cancelado"
             [] OTHER -> r.Etapa,
           IF r.Categoria2 = "SAP" THEN "Incidente" ELSE r.Categoria2 >>

\* C8: the output of load_data is the simultaneous assignment of the six rules
\* read from the raw values (a row matching a status rule and the category rule
\* gets both rewrites), and the rows keep their input order and count.
C8_PredicatesOnRawValues ==
    Loaded =>
        /\ Len(df) = Len(file.rows)
        /\ \A i \in DOMAIN df :
              /\ df[i].Atendimento = raw(i).Atendimento
              /\ RuleFields(df[i]) = snapshot_row(raw(i))

C8_Witness ==
    /\ Loaded
    /\ Len(df) = 2
    /\ raw(1).Situacao = "Suspenso" /\ raw(1).Categoria2 = "SAP"
    /\ RuleFields(df[1]) = <<"Aguardando Aprovacao/Pausado", raw(1).Etapa, "Incidente">>
    /\ raw(2).Situacao = "Cancelado" /\ raw(2).Etapa = "Reprovado"
    /\ df[2].Atendimento = 2

\* the six rules with chaining: each rule's masks are computed from the table as
\* the earlier rules left it
chained_rules(t) ==
    LET t1 == rule1(t,  masks(t))
        t2 == rule2(t1, masks(t1))
        t3 == rule3(t2, masks(t2))
        t4 == rule4(t3, masks(t3))
        t5 == rule5(t4, masks(t4))
    IN  rule6(t5, masks(t5))

\* C9, as stated: some input row tells the chained application of the six rules
\* from their evaluation on the pre-rewrite snapshot.
C9_SomeRowTellsChainingApart ==
    Loaded =>
        \E r \in RuleRows :
            RuleFields(chained_rules(<<r>>)[1])     # RuleFields(apply_rules(<<r>>)[1])

\* C9, amended: no input row tells the two apart: for every loaded table the
\* chained application of the six rules yields the same status, stage and
\* category as load_data does.
C9_ChainingYieldsTheSame ==
    Loaded =>
        LET chained == chained_rules(parse_dates(file.rows))
        IN  /\ Len(chained) = Len(df)
            /\ \A i \in DOMAIN df : RuleFields(chained[i]) = RuleFields(df[i])

C9_Witness ==
    /\ Loaded
    /\ \E i \in DOMAIN file.rows :
          /\ raw(i).Situacao = "Cancelado" /\ raw(i).Etapa = "Reprovado"
          /\ raw(i).Categoria2 = "SAP"
          /\ RuleFields(df[i]) = <<"Reprovado", "Reprovado", "Incidente">>

\* C10: applying the six rules to the output of load_data changes neither
\* status, stage nor category of any row.
C10_RulesIdempotent ==
    Loaded =>
        LET again == apply_rules(df)
        IN  \A i \in DOMAIN df : RuleFields(again[i]) = RuleFields(df[i])

C10_Witness ==
    /\ Loaded
    /\ \E i, j \in DOMAIN file.rows :
          /\ raw(i).Situacao = "Cancelado" /\ raw(i).Etapa = "Outro"
          /\ RuleFields(df[i]) = <<"Cancelado", "Cancelado", raw(i).Categoria2>>
          /\ raw(j).Situacao = "Aguardando Atendimento"
          /\ df[j].Situacao = "Em Atendimento"

\* C11: whatever the raw status and stage, no row leaves load_data with status
\* "Cancelado" and stage "Reprovado" or "Atendimento Reprovado".
C11_NoCanceladoWithReprovado ==
    Loaded =>
        \A i \in DOMAIN df :
            ~(df[i].Situacao = "Cancelado" /\ df[i].Etapa \in EtapaReprovado)

\* both kinds of raw "Cancelado" row, and a rejected stage kept under another status
C11_Witness ==
    /\ Loaded
    /\ \E i, j \in DOMAIN file.rows :
          /\ raw(i).Situacao = "Cancelado" /\ raw(i).Etapa = "Atendimento Reprovado"
          /\ df[i].Situacao = "Reprovado"
          /\ raw(j).Situacao = "Em Atendimento" /\ raw(j).Etapa = "Reprovado"
          /\ df[j].Situacao = "Em Atendimento" /\ df[j].Etapa = "Reprovado"

---------------------------------------------------------------------------
(* Properties of the duration column (SpecDates) *)

BothDates(r) == r.DataAbertura # NaT /\ r.DataTermino # NaT

\* C5, as stated: with both timestamps present the duration is the difference of
\* the two calendar dates, whatever the times of day; otherwise it is null.
C5_DurationIsDateDifference ==
    Loaded =>
        \A i \in DOMAIN df :
            df[i].Tempo = IF BothDates(df[i])
                          THEN <<date_of(df[i].DataTermino) - date_of(df[i].DataAbertura)>>
                          ELSE <<>>

\* C5, amended: with both timestamps present the duration is the whole days of
\* the elapsed time: the difference of the two calendar dates when the closing
\* time of day is not earlier than the opening time of day, and one day less
\* when it is earlier; otherwise it is null.
C5_DurationIsElapsedWholeDays ==
    Loaded =>
        \A i \in DOMAIN df :
            df[i].Tempo =
                IF BothDates(df[i])
                THEN <<date_of(df[i].DataTermino) - date_of(df[i].DataAbertura)
                       - (IF hour_of(df[i].DataTermino) < hour_of(df[i].DataAbertura)
                          THEN 1 ELSE 0)>>
                ELSE <<>>

C5_Witness ==
    /\ Loaded
    /\ \E i, j \in DOMAIN df :
          /\ df[i].DataAbertura = Timestamp(2024, 1, 31, 20)
          /\ df[i].DataTermino  = Timestamp(2024, 2, 1, 8)
          /\ df[i].Tempo = <<0>>
          /\ df[j].DataAbertura = Timestamp(2024, 2, 1, 20)
          /\ df[j].DataTermino  = Timestamp(2024, 1, 31, 8)
          /\ df[j].Tempo = <<-2>>

\* C6, as stated: the duration is non-null exactly when the closing timestamp is
\* non-null.
C6_DurationIffClosed ==
    Loaded =>
        \A i \in DOMAIN df : (df[i].Tempo # <<>>) <=> (df[i].DataTermino # NaT)

\* C6, amended: the duration is non-null exactly when both the closing and the
\* opening cell hold a date; a row whose opening cell is empty or is no date has
\* a null duration even when it is closed.
C6_DurationIffBothDates ==
    Loaded =>
        /\ Len(df) = Len(file.rows)
        /\ \A i \in DOMAIN df :
              (df[i].Tempo # <<>>) <=>
                  (raw(i).DataTermino.kind = "datetime" /\ raw(i).DataAbertura.kind = "datetime")

C6_Witness ==
    /\ Loaded
    /\ \E i, j \in DOMAIN df :
          /\ raw(i).DataAbertura = TextCell /\ raw(i).DataTermino.kind = "datetime"
          /\ df[i].DataTermino # NaT /\ df[i].Tempo = <<>>
          /\ raw(j).DataAbertura = EmptyCell /\ raw(j).DataTermino.kind = "datetime"
          /\ df[j].Tempo = <<>>

NegativeDuration(r) == r.Tempo # <<>> /\ r.Tempo[1] < 0

\* a message that is about something else than a null status
FlagsRow(m) == m # WarnSituacaoIndefinida

\* C7: a row closed before it was opened (negative duration) is flagged: it is
\* not in the returned table, or a warning or error about it is shown.
C7_NegativeDurationFlagged ==
    Loaded =>
        \A i \in DOMAIN df :
            NegativeDuration(df[i]) => \E k \in DOMAIN msgs : FlagsRow(msgs[k])

---------------------------------------------------------------------------
(* Properties of the backlog ledger (SpecBacklog) *)

Rendered == pc = "rendered"
ledger == backlog.rows

\* C3: in every ledger row the tickets closed in their opening month and the
\* transferred tickets add up to the tickets opened.
C3_LedgerBalance ==
    Rendered =>
        /\ Len(ledger) >= 1
        /\ \A k \in DOMAIN ledger :
              ledger[k].Fechados + ledger[k].Transferidos = ledger[k].Abertos

\* a ticket closed in its month, one closed in a later month and one never closed
C3_Witness ==
    /\ Rendered
    /\ Len(ledger) = 2
    /\ ledger[1].Abertos = 2 /\ ledger[1].Fechados = 1
    /\ ledger[1].Transferidos = 1 /\ ledger[1].EmAberto = 0
    /\ ledger[2].Abertos = 1 /\ ledger[2].Fechados = 0
    /\ ledger[2].Transferidos = 1 /\ ledger[2].EmAberto = 1

\* year * 12 + month of a timestamp: the chronological rank of its month
month_number(ts) ==
    LET c == civil_from_days(date_of(ts)) IN c[1] * 12 + c[2]

opened_month_numbers(t) == {month_number(t[i].DataAbertura) : i \in DOMAIN t}

\* f[1] + ... + f[k]
SumTo(f, k) ==
    LET acc[n \in 0..k] == IF n = 0 THEN 0 ELSE acc[n - 1] + f[n]
    IN  acc[k]

\* C4: the k-th ledger row is the k-th opening month in chronological order, and
\* its cumulative backlog is the sum over rows 1..k of (opened - closed in the
\* month) plus the open tickets of row k alone.
C4_CumulativeBacklog ==
    Rendered =>
        LET months == opened_month_numbers(df_filtered)
            net    == [j \in DOMAIN ledger |-> ledger[j].Abertos - ledger[j].Fechados]
        IN  /\ Len(ledger) = Cardinality(months)
            /\ \A k \in DOMAIN ledger :
                  /\ \E i \in DOMAIN df_filtered :
                        /\ Cardinality({m \in months :
                               m < month_number(df_filtered[i].DataAbertura)}) = k - 1
                        /\ ledger[k].MesAbertura =
                               converter_mes_ano(period_M_str(df_filtered[i].DataAbertura))
                  /\ ledger[k].BacklogAcumulado = SumTo(net, k) + ledger[k].EmAberto

\* three months; the open ticket of the first month is not carried into the
\* second row's value beyond the running sum
C4_Witness ==
    /\ Rendered
    /\ Len(ledger) = 3
    /\ ledger[1].MesAbertura = <<"Dezembro", "-", "2", "0", "2", "3">>
    /\ ledger[1].EmAberto = 1 /\ ledger[1].BacklogAcumulado = 2
    /\ ledger[2].EmAberto = 0 /\ ledger[2].BacklogAcumulado = 2
    /\ ledger[3].Fechados = 1 /\ ledger[3].BacklogAcumulado = 2

\* the label of the month of a timestamp, as the ledger shows it
month_label(ts) == converter_mes_ano(period_M_str(ts))

\* the tickets of t opened in the month labelled so
opened_in(t, label) == {i \in DOMAIN t : month_label(t[i].DataAbertura) = label}

\* C12: the ledger has exactly one row for each distinct opening month of the
\* tickets handed to the backlog computation, each row counts at least one
\* opening, and a month in which tickets were only closed has no row.
C12_OneRowPerOpeningMonth ==
    Rendered =>
        /\ \A i \in DOMAIN df_filtered :
              /\ Cardinality({k \in DOMAIN ledger :
                     ledger[k].MesAbertura = month_label(df_filtered[i].DataAbertura)}) = 1
              /\ (/\ df_filtered[i].DataTermino # NaT
                  /\ month_number(df_filtered[i].DataTermino)
                        \notin opened_month_numbers(df_filtered))
                    => \A k \in DOMAIN ledger :
                          ledger[k].MesAbertura # month_label(df_filtered[i].DataTermino)
        /\ \A k \in DOMAIN ledger :
              /\ ledger[k].Abertos >= 1
              /\ ledger[k].Abertos = Cardinality(opened_in(df_filtered, ledger[k].MesAbertura))

\* tickets opened in December and February, one of them closed in January: no
\* row for January
C12_Witness ==
    /\ Rendered
    /\ Len(ledger) = 2
    /\ ledger[1].MesAbertura = <<"Dezembro", "-", "2", "0", "2", "3">>
    /\ ledger[1].Abertos = 2
    /\ ledger[2].MesAbertura = <<"Fevereiro", "-", "2", "0", "2", "4">>
    /\ \E i \in DOMAIN df_filtered :
          df_filtered[i].DataTermino = Timestamp(2024, 1, 31, 20)

digit_value(c) == CHOOSE d \in 0..9 : digit(d) = c

\* year * 12 + month of a period label 'YYYY-MM'
period_number(p) ==
    (digit_value(p[1]) * 1000 + digit_value(p[2]) * 100
        + digit_value(p[3]) * 10 + digit_value(p[4])) * 12
    + digit_value(p[6]) * 10 + digit_value(p[7])

\* year * 12 + month of a ledger label 'Mes-YYYY'
label_number(l) ==
    (digit_value(l[3]) * 1000 + digit_value(l[4]) * 100
        + digit_value(l[5]) * 10 + digit_value(l[6])) * 12
    + (CHOOSE m \in 1..12 :
          l[1] = meses_pt(IF m < 10 THEN <<digit(m)>> ELSE <<"1", digit(m - 10)>>))

\* C13: the ledger rows are in strictly increasing chronological order of opening
\* month (year, then month), before the labels are rewritten and after, and the
\* cumulative backlog of a row counts the tickets of its month and of every
\* earlier month, whatever the order of the rows of the table.
C13_ChronologicalOrder ==
    Rendered =>
        /\ \A merged \in {merged_counts(month_columns(df_filtered))} :
              /\ Len(merged) = Len(ledger)
              /\ \A j, k \in DOMAIN merged :
                    j < k => period_number(merged[j].MesAbertura)
                                 < period_number(merged[k].MesAbertura)
        /\ \A j, k \in DOMAIN ledger :
              j < k => label_number(ledger[j].MesAbertura) < label_number(ledger[k].MesAbertura)
        /\ \A k \in DOMAIN ledger :
              ledger[k].BacklogAcumulado - ledger[k].EmAberto =
                  Cardinality({i \in DOMAIN df_filtered :
                      /\ month_number(df_filtered[i].DataAbertura)
                            <= label_number(ledger[k].MesAbertura)
                      /\ \/ df_filtered[i].DataTermino = NaT
                         \/ month_number(df_filtered[i].DataTermino)
                               # month_number(df_filtered[i].DataAbertura)})

\* three months across the year end, the rows of the table latest month first
C13_Witness ==
    /\ Rendered
    /\ Len(df_filtered) = 3
    /\ df_filtered[1].DataAbertura = Timestamp(2024, 2, 1, 0)
    /\ df_filtered[2].DataAbertura = Timestamp(2024, 1, 31, 8)
    /\ df_filtered[3].DataAbertura = Timestamp(2023, 12, 31, 20)
    /\ Len(ledger) = 3
    /\ ledger[1].MesAbertura = <<"Dezembro", "-", "2", "0", "2", "3">>
    /\ ledger[2].MesAbertura = <<"Janeiro", "-", "2", "0", "2", "4">>
    /\ ledger[3].MesAbertura = <<"Fevereiro", "-", "2", "0", "2", "4">>

\* C14: the open count of a row is the number of tickets opened in its month with
\* no closing date; each of them is counted as transferred too, so that
\* open <= transferred <= opened.
C14_OpenWithinTransferred ==
    Rendered =>
        \A k \in DOMAIN ledger :
            LET opened == opened_in(df_filtered, ledger[k].MesAbertura)
                open   == {i \in opened : df_filtered[i].DataTermino = NaT}
                later  == {i \in opened :
                              /\ df_filtered[i].DataTermino # NaT
                              /\ month_number(df_filtered[i].DataTermino)
                                    # month_number(df_filtered[i].DataAbertura)}
            IN  /\ ledger[k].EmAberto = Cardinality(open)
                /\ ledger[k].Transferidos = Cardinality(open) + Cardinality(later)
                /\ ledger[k].EmAberto <= ledger[k].Transferidos
                /\ ledger[k].Transferidos <= ledger[k].Abertos

\* a month with one ticket closed in it, one closed later and one never closed
C14_Witness ==
    /\ Rendered
    /\ \E k \in DOMAIN ledger :
          /\ ledger[k].Abertos = 3 /\ ledger[k].Fechados = 1
          /\ ledger[k].Transferidos = 2 /\ ledger[k].EmAberto = 1

---------------------------------------------------------------------------
(* Properties of the failure handling (SpecColumns, SpecCharts) *)

\* the upload cannot be read, or lacks a column of the rules or of the date parsing
LoadFails ==
    \/ ~file.readable
    \/ \E c \in {"DataAbertura", "DataTermino", "Situacao", "Etapa", "Categoria2"} :
          c \notin file.columns

\* C15: when the upload cannot be read or lacks a column that the rules or the
\* date parsing use, load_data reports a message and returns the empty table, no
\* exception leaves it, and main stops after its own message: no filter, no
\* metric, no chart and no download button.
C15_LoadFailureCaught ==
    (LoadFails /\ pc # "uploaded") =>
        /\ pc = "halted"
        /\ exc = NoException
        /\ df = <<>>
        /\ msgs = <<ErrProcessarArquivo, ErrCarregarDados>>
        /\ df_filtered = <<>>
        /\ metrics = NoMetrics
        /\ backlog = NoBacklog
        /\ report = <<>>

\* a readable file with a ticket and no stage column
C15_Witness ==
    /\ pc = "halted"
    /\ file.readable
    /\ file.rows # <<>>
    /\ file.columns = AllColumns \ {"Etapa"}
    /\ msgs = <<ErrProcessarArquivo, ErrCarregarDados>>

\* the names of the elements rendered
Shown == {report[k] : k \in DOMAIN report}

RenderingDone == pc \in {"raised", "rendered"} /\ df_filtered # <<>>

\* C17: no exception leaves the rendering: an element that raises is caught at
\* its own boundary, and every other element, the download button included, is
\* rendered.
C17_NoExceptionEscapesRendering ==
    RenderingDone =>
        /\ exc = NoException
        /\ "download_button" \in Shown
        /\ \A k \in DOMAIN elements :
              elements[k].needs \subseteq df_columns(file) => elements[k].name \in Shown

\* the columns the claim names: status, stage, the two categories, priority,
\* team, owner and SLA flag
NamedColumns ==
    {"Situacao", "Etapa", "Categoria2", "Categoria1", "Prioridade", "Equipe",
     "Responsavel", "Atraso"}

Reported(m) == \E k \in DOMAIN msgs : msgs[k] = m

\* C18: when the upload lacks exactly one of the named columns (and holds a
\* ticket with an opening date), the run is not aborted: load_data does not
\* fail, no exception ends the run, and once the report is rendered every
\* element that does not read the column is shown.
C18_MissingColumnOnlySkipsCharts ==
    \A c \in NamedColumns :
        (/\ Ended
         /\ file.readable
         /\ file.columns = AllColumns \ {c}
         /\ \E i \in DOMAIN file.rows : file.rows[i].DataAbertura.kind = "datetime")
        => /\ exc = NoException
           /\ ~Reported(ErrCarregarDados)
           /\ pc = "rendered" =>
                 \A k \in DOMAIN elements :
                     c \notin elements[k].needs => elements[k].name \in Shown

---------------------------------------------------------------------------
(* Properties of the rows and of the metric cards (SpecMetrics) *)

\* load_data keeps the rows of the upload, one for one and in the same order; a
\* row with a null status or with an opening date that cannot be parsed is kept,
\* its opening date, duration, weekday and hour null and its month label as
\* given; a null status is reported by a warning and nothing else
RowsKept(month_of_no_date) ==
    (file.readable /\ pc # "uploaded") =>
        /\ Len(df) = Len(file.rows)
        /\ \A i \in DOMAIN file.rows :
              /\ df[i].Atendimento = file.rows[i].Atendimento
              /\ df[i].Atraso = file.rows[i].Atraso
              /\ file.rows[i].Situacao = NaN => df[i].Situacao = NaN
              /\ IF file.rows[i].DataAbertura.kind = "datetime"
                 THEN /\ df[i].DataAbertura = file.rows[i].DataAbertura.v
                      /\ df[i].Tempo # <<>>
                      /\ df[i].Hora # <<>>
                 ELSE /\ df[i].DataAbertura = NaT
                      /\ df[i].Tempo = <<>>
                      /\ df[i].Hora = <<>>
                      /\ df[i].DiaDaSemana = NaN
                      /\ df[i].Mes = month_of_no_date
        /\ Reported(WarnSituacaoIndefinida)
              <=> \E i \in DOMAIN file.rows : file.rows[i].Situacao = NaN
        /\ file.rows # <<>> => ~Reported(ErrProcessarArquivo) /\ ~Reported(ErrCarregarDados)

\* C19, as stated: when load_data succeeds its table has the rows of the upload,
\* one for one and in the same order; a row with a null status or with a date
\* that cannot be parsed is kept, its date and every field derived from it null,
\* the month included; a null status only triggers a warning.
C19_RowsKeptAllDerivedNull == RowsKept(NaN)

\* C19, amended: the same, except that the month of a row without opening date
\* is not null: it is the text 'NaT'.
C19_RowsKept == RowsKept(<<"N", "a", "T">>)

\* three tickets: a null status first, then an opening date that is a text
C19_Witness ==
    /\ pc = "loaded"
    /\ Len(file.rows) = 3
    /\ file.rows[1].Situacao = NaN
    /\ file.rows[2].DataAbertura = TextCell
    /\ file.rows[3].DataAbertura.kind = "datetime"
    /\ Len(df) = 3
    /\ df[1].Situacao = NaN
    /\ df[2].DataAbertura = NaT
    /\ df[2].Tempo = <<>>
    /\ df[2].Mes = <<"N", "a", "T">>
    /\ msgs = <<WarnSituacaoIndefinida>>

\* the fraction sla is the SLA percentage of the table t: 0 when no row of t has
\* a non-null flag, else 100 * (rows flagged "Nao") / (rows with a non-null flag)
IsSlaPercentOf(sla, t) ==
    LET flagged == Cardinality({i \in DOMAIN t : t[i].Atraso # NaN})
        nao     == Cardinality({i \in DOMAIN t : t[i].Atraso = "Nao"})
    IN  /\ sla[2] # 0
        /\ IF flagged = 0
           THEN sla[1] = 0
           ELSE sla[1] * flagged = 100 * nao * sla[2]

\* C20: the SLA percentage of create_metrics is 0 when no row of the table has a
\* non-null SLA flag (the empty table, or every flag null) and otherwise
\* 100 * (rows flagged "Nao") / (rows with a non-null flag); no division by zero
\* happens and the cards are shown whenever create_metrics is called.  Stated
\* for the card shown and for every leading part of the loaded table, the empty
\* one included.
C20_SlaPercent ==
    /\ \A k \in 0..Len(df) :
          IsSlaPercentOf(sla_percent(SubSeq(df, 1, k)), SubSeq(df, 1, k))
    /\ metrics.shown => IsSlaPercentOf(metrics.sla_percent, df_filtered)
    /\ RenderingDone => metrics.shown

\* a null flag, a "Nao" and a "Sim": 50 percent, and 0 for the first row alone
C20_Witness ==
    /\ Rendered
    /\ Len(df_filtered) = 3
    /\ df_filtered[1].Atraso = NaN
    /\ df_filtered[2].Atraso = "Nao"
    /\ df_filtered[3].Atraso = "Sim"
    /\ metrics.sla_percent = <<100, 2>>
    /\ sla_percent(SubSeq(df_filtered, 1, 1)) = <<0, 1>>

---------------------------------------------------------------------------
(* Properties of the session (SpecSession) *)

\* the step of main that calls load_data
LoadStep == pc = "uploaded" /\ pc' # "uploaded"

\* the cache holds an entry of the file in the uploader younger than ttl, or
\* none or one older than ttl
Fresh == file \in DOMAIN cache /\ now - cache[file].at < ttl
Stale == file \notin DOMAIN cache \/ now - cache[file].at > ttl

---------------------------------------------------------------------------
(* Properties of the default selection (SpecDefaults) *)

\* the filter of main has been applied
Filtered == pc \in {"filtered", "rendered"} \/ (pc = "halted" /\ df # <<>>)

\* the tickets of a table
ids(t) == {t[i].Atendimento : i \in DOMAIN t}

---------------------------------------------------------------------------
(* Properties of the run of main (SpecSession) *)

\* the steps a run of main may take, as pairs of positions
main_steps ==
    { <<"start", "uploaded">>, <<"start", "halted">>,
      <<"uploaded", "loaded">>, <<"uploaded", "halted">>,
      <<"loaded", "filtered">>, <<"loaded", "halted">>, <<"loaded", "raised">>,
      <<"filtered", "rendered">>, <<"filtered", "raised">>,
      <<"halted", "start">>, <<"raised", "start">>, <<"rendered", "start">> }

\* a step leaves the position of the run or takes one of those steps
main_step == pc' = pc \/ <<pc, pc'>> \in main_steps

\* the elements reported stand in the order metrics, charts, download button
report_in_order ==
    \A i \in DOMAIN report : \A j \in DOMAIN report :
        i < j => position(elements, report[i]) < position(elements, report[j])

\* the row of the loaded table a row of the export was taken from
same_ticket(exported, loaded) ==
    /\ exported.Atendimento = loaded.Atendimento
    /\ exported.DataAbertura = loaded.DataAbertura
    /\ exported.DataTermino = loaded.DataTermino
    /\ exported.Situacao = loaded.Situacao
    /\ exported.Etapa = loaded.Etapa
    /\ exported.Categoria2 = loaded.Categoria2
    /\ exported.Categoria1 = loaded.Categoria1
    /\ exported.Atraso = loaded.Atraso
    /\ exported.Tempo = loaded.Tempo
    /\ exported.Mes = loaded.Mes

\* the gates of main and the download button, in a state of the run
main_gates ==
    /\ file = NoFile => df = <<>> /\ pc \in {"start", "halted"} /\ NoFile \notin DOMAIN cache
    /\ pc \in {"start", "uploaded"} => df = <<>>
    /\ df = <<>> => df_filtered = <<>> /\ pc \in {"start", "uploaded", "halted"}
    /\ df_filtered = <<>> => /\ report = <<>> /\ ~metrics.shown /\ ~download.offered
                              /\ pc \notin {"filtered", "rendered"}
    /\ report_in_order
    /\ metrics.shown => report # <<>> /\ report[1] = "metrics"
    /\ download.offered =>
          /\ pc = "rendered" /\ exc = NoException
          /\ report[Len(report)] = "download_button"
          /\ \E k \in DOMAIN report : report[k] = "backlog"
          /\ download.data = df_filtered
          /\ \E pick \in [DOMAIN df_filtered -> DOMAIN df] :
                /\ \A k \in DOMAIN df_filtered : same_ticket(download.data[k], df[pick[k]])
                /\ \A k \in DOMAIN df_filtered : \A l \in DOMAIN df_filtered :
                      k < l => pick[k] < pick[l]
    /\ pc = "rendered" => download.offered

---------------------------------------------------------------------------
(* Properties of the backlog reached through main (SpecBacklog) *)

====
